---- MODULE Spec2Model ----
(***************************************************************************)
(* Model of sorcererxw/game-of-life-img (src/main.go).                     *)
(*                                                                         *)
(* The program runs two hub goroutines.  GameRender.Start evolves a board  *)
(* and sends one frame per cycle to every channel of the map r.gameChs,    *)
(* which the HTTP handlers write directly (Register / unregister).         *)
(* ViewersRender.Start owns its map and is reached through the unbuffered  *)
(* channels viewerJoin and viewerLeave.  streamHandleFunc is one session:  *)
(* it makes a channel, registers it, and copies frames to the connection   *)
(* until the request context is done.                                      *)
(***************************************************************************)
EXTENDS Integers, Sequences, FiniteSets, TLC

\* ------------------------------------------------------------------ bounds
NumSessions == 2      \* HTTP requests (one streamHandleFunc call each)
BoardW == 1           \* rows of the board (the code makes 80)
BoardH == 3           \* cells per row (the code makes 60)
MaxUnregCalls == 2    \* invocations of one unregister closure (SpecApi)
EvoW == 3             \* rows of the boards given to Evolute (SpecEvolute)
EvoH == 3             \* cells per row of those boards

Sessions == 1..NumSessions
Hubs == {"game", "viewers"}

\* ------------------------------------------------------- board and frames
\* A Get that wraps round the edges of the board.
GetWrap(b, i, j) ==
    b[(i % Len(b)) + 1][(j % Len(b[(i % Len(b)) + 1])) + 1]

\* Board.Get: positions outside the board read as dead.  i, j are 0-based.
Get(b, i, j) ==
    IF i < 0 \/ i >= Len(b) THEN FALSE
    ELSE IF j < 0 \/ j >= Len(b[i + 1]) THEN FALSE
    ELSE b[i + 1][j + 1]

directions ==
    << <<1, 1>>, <<1, 0>>, <<1, -1>>, <<0, 1>>,
       <<0, -1>>, <<-1, 1>>, <<-1, 0>>, <<-1, -1>> >>

\* cnt of Evolute for cell (i, j), 0-based.
Neighbours(b, i, j) ==
    Cardinality({d \in 1..8 : Get(b, i + directions[d][1], j + directions[d][2])})

Evolute(board) ==
    [i \in 1..Len(board) |->
        [j \in 1..Len(board[i]) |->
            LET cnt == Neighbours(board, i - 1, j - 1)
            IN  IF cnt = 2 THEN Get(board, i - 1, j - 1)
                ELSE IF cnt = 3 THEN TRUE
                ELSE FALSE]]

\* The values rand.Int() is drawn from: 5 is a multiple of 5, 3 is not.
RandVals == {3, 5}

\* The draws of one run of NewBoard, as rnd[i][j]: the streams in which every
\* draw gives the same value (all cells live, or all cells dead).
RandStreams == {[i \in 1..BoardW |-> [j \in 1..BoardH |-> v]] : v \in RandVals}

\* Every stream of draws for a board of w by h.
AllRandStreams(w, h) == [1..w -> [1..h -> RandVals]]

\* NewBoard(w, h) with the draws of rand.Int() given as rnd[i][j].
NewBoard(w, h, rnd) ==
    [i \in 1..w |-> [j \in 1..h |-> rnd[i][j] % 5 = 0]]

\* Board.Svg: the canvas size and one rect per live cell, in loop order.
Svg(b, k) ==
    LET n == Len(b)
        m == Len(b[1])
        cells == [p \in 1..(n * m) |-> <<(p - 1) \div m, (p - 1) % m>>]
        live == SelectSeq(cells, LAMBDA c : b[c[1] + 1][c[2] + 1])
    IN  [w |-> k * n, h |-> k * m,
         body |-> [p \in 1..Len(live) |-> <<live[p][1] * k, live[p][2] * k, k, k>>]]

\* strconv.Itoa for v >= 0: the decimal digits, most significant first.
RECURSIVE Itoa(_)
Itoa(v) == IF v < 10 THEN <<v>> ELSE Append(Itoa(v \div 10), v % 10)

\* numberSvg: a canvas 14 per digit wide with the digits as one text element.
numberSvg(v) ==
    LET s == Itoa(v)
    IN  [w |-> Len(s) * 14, h |-> 14, body |-> << <<7, 7>> \o s >>]

\* ImageBundle built by GameRender.Start from the board.
GameBundle(b) == [Data |-> Svg(b, 10), ContentType |-> "image/svg+xml"]

\* A bundle that counts one more than the map holds.
ViewersBundlePlusOne(m) ==
    [Data |-> numberSvg(Cardinality(m) + 1), ContentType |-> "image/svg+xml"]

\* ImageBundle built by ViewersRender.Start from its map.
ViewersBundle(m) ==
    [Data |-> numberSvg(Cardinality(m)), ContentType |-> "image/svg+xml"]

\* The zero ImageBundle.
NoBundle == [Data |-> [w |-> 0, h |-> 0, body |-> <<>>], ContentType |-> ""]

\* ------------------------------------------------------------- map, chan
\* An insert that keeps only the key inserted last.
MapInsertSingle(m, c) == {c}

\* m[c] = struct{}{}
MapInsert(m, c) == m \cup {c}

\* A delete that removes the key when present and adds it when absent.
MapDeleteToggle(m, c) == IF c \in m THEN m \ {c} ELSE m \cup {c}

\* delete(m, c)
MapDelete(m, c) == m \ {c}

\* A send that queues the frame whether or not the receiver is waiting.
TrySendBuffered(q, ready, bundle) == Append(q, bundle)

\* select { case ch <- bundle: default: } on an unbuffered channel: the frame
\* is handed over only when the receiver is parked on the channel.
TrySend(q, ready, bundle) == IF ready THEN Append(q, bundle) ELSE q

\* ------------------------------------------------------------------ state
VARIABLES
    pc,          \* session -> position in streamHandleFunc
    hub,         \* session -> the render its route was bound to ("none" before)
    ctxDone,     \* session -> r.Context().Done() is closed
    ch,          \* session -> frames handed to its channel and not yet written out
    err,         \* session -> err after the writes of the frame in hand is non-nil
    unregCalls,  \* session -> invocations of its unregister closure so far
    b,           \* GameRender.Start: the board
    gameChs,     \* GameRender.gameChs (channels named by their session)
    gpc,         \* GameRender.Start: position in the loop
    gtodo,       \* GameRender.Start: keys the range loop has yet to produce
    gbundle,     \* GameRender.Start: bundle of the current cycle
    viewers,     \* ViewersRender.Start: the map viewers
    vpc,         \* ViewersRender.Start: position in the loop
    vtodo,       \* ViewersRender.Start: keys the range loop has yet to produce
    vbundle,     \* ViewersRender.Start: bundle of the current cycle
    crashed,     \* the runtime threw a fatal error (concurrent map access)
    jl,          \* history (SpecHist): hub -> its last join, and whether the
                 \* leave of the same channel came next
    got,         \* history (SpecSeq): sessions that were handed the bundle
                 \* their hub is sending round
    newBoard,    \* Evolute: the board under construction (SpecEvolute)
    epc,         \* Evolute: position in the function
    ei,          \* Evolute: i of the outer loop
    ej           \* Evolute: j of the inner loop

vars == <<pc, hub, ctxDone, ch, err, unregCalls, b, gameChs, gpc, gtodo,
          gbundle, viewers, vpc, vtodo, vbundle, crashed, jl, got,
          newBoard, epc, ei, ej>>

sessVars == <<pc, hub, ctxDone, ch, err, unregCalls>>
gameVars == <<b, gameChs, gpc, gtodo, gbundle>>
viewVars == <<viewers, vpc, vtodo, vbundle>>
evoVars == <<newBoard, epc, ei, ej>>
sideVars == <<jl, got, evoVars>>

NoJL == [s |-> 0, prior |-> {}, stage |-> "none"]

\* History of the membership operations of hub h: a join of s over prior.
JoinMark(h, s, prior) ==
    jl' = [jl EXCEPT ![h] = [s |-> s, prior |-> prior, stage |-> "joined"]]

\* ... and a leave of s, which is "left" only directly after the join of s.
LeaveMark(h, s) ==
    jl' = [jl EXCEPT ![h] =
              IF jl[h].stage = "joined" /\ jl[h].s = s
              THEN [jl[h] EXCEPT !.stage = "left"]
              ELSE NoJL]

\* The session is parked in the select of streamHandleFunc with no case ready.
Ready(s) == pc[s] = "select" /\ ~ctxDone[s]

\* Sessions inside a write of r.gameChs (mapassign of Register, mapdelete of
\* the closure).
Writers == {s \in Sessions : pc[s] \in {"regWriting", "unregWriting"}}

\* Two tasks inside r.gameChs at once, one of them writing: the hub iterating
\* while a session writes, or two sessions writing.
Race == (gpc = "range" /\ Writers # {}) \/ Cardinality(Writers) >= 2

\* The hubs and the handlers before any request, the board left aside.
InitServer ==
    /\ pc = [s \in Sessions |-> "idle"]
    /\ hub = [s \in Sessions |-> "none"]
    /\ ctxDone = [s \in Sessions |-> FALSE]
    /\ ch = [s \in Sessions |-> <<>>]
    /\ err = [s \in Sessions |-> FALSE]
    /\ unregCalls = [s \in Sessions |-> 0]
    /\ gameChs = {}
    /\ gpc = "check"
    /\ gtodo = {}
    /\ gbundle = NoBundle
    /\ viewers = {}
    /\ vpc = "select"
    /\ vtodo = {}
    /\ vbundle = NoBundle
    /\ crashed = FALSE
    /\ jl = [h \in Hubs |-> NoJL]
    /\ got = {}

Init ==
    /\ InitServer
    /\ \E rnd \in RandStreams : b = NewBoard(BoardW, BoardH, rnd)
    /\ newBoard = <<>>
    /\ epc = "none"
    /\ ei = 0
    /\ ej = 0

\* ------------------------------------------------------------- a session
\* The mux calls the handler of /game.svg or /viewers.svg: ch is made and
\* render.Register is about to run.  Sessions are numbered in the order the
\* server accepts their requests.
Connect(s, h) ==
    /\ ~crashed
    /\ pc[s] = "idle"
    /\ \A t \in Sessions : t < s => pc[t] # "idle"
    /\ pc' = [pc EXCEPT ![s] = "register"]
    /\ hub' = [hub EXCEPT ![s] = h]
    /\ UNCHANGED <<ctxDone, ch, err, unregCalls, gameVars, viewVars, crashed, sideVars>>

\* The client goes away or the server shuts down: the request context is done.
Cancel(s) ==
    /\ ~crashed
    /\ pc[s] \in {"register", "regWriting", "select", "write", "flush"}
    /\ ~ctxDone[s]
    /\ ctxDone' = [ctxDone EXCEPT ![s] = TRUE]
    /\ UNCHANGED <<pc, hub, ch, err, unregCalls, gameVars, viewVars, crashed, sideVars>>

\* GameRender.Register enters the write r.gameChs[c] = struct{}{}.
GameRegisterBegin(s) ==
    /\ ~crashed
    /\ pc[s] = "register" /\ hub[s] = "game"
    /\ pc' = [pc EXCEPT ![s] = "regWriting"]
    /\ UNCHANGED <<hub, ctxDone, ch, err, unregCalls, gameVars, viewVars,
                   crashed, sideVars>>

\* The write takes effect and Register returns the closure.  A key created
\* while the hub ranges over the map may or may not be produced by the range.
RegisterWrite(s) ==
    /\ ~crashed
    /\ pc[s] = "regWriting"
    /\ gameChs' = MapInsert(gameChs, s)
    /\ \E seen \in BOOLEAN :
           gtodo' = IF gpc = "range" /\ seen THEN gtodo \cup {s} ELSE gtodo
    /\ pc' = [pc EXCEPT ![s] = "select"]
    /\ UNCHANGED <<hub, ctxDone, ch, err, unregCalls, b, gpc, gbundle,
                   viewVars, crashed>>

GameRegisterEnd(s) == RegisterWrite(s) /\ UNCHANGED sideVars

\* The select of streamHandleFunc takes the Done case: return, and the
\* deferred unregister() is invoked.
SelectDoneNoDefer(s) ==
    /\ ~crashed
    /\ pc[s] = "select" /\ ctxDone[s]
    /\ pc' = [pc EXCEPT ![s] = "closed"]
    /\ UNCHANGED <<hub, ctxDone, ch, err, unregCalls, gameVars, viewVars,
                   crashed, sideVars>>

SelectDone(s) ==
    /\ ~crashed
    /\ pc[s] = "select" /\ ctxDone[s]
    /\ pc' = [pc EXCEPT ![s] = "unregister"]
    /\ unregCalls' = [unregCalls EXCEPT ![s] = @ + 1]
    /\ UNCHANGED <<hub, ctxDone, ch, err, gameVars, viewVars, crashed, sideVars>>

\* case data := <-ch: the four w.Write calls.  Each may fail (ok[k] tells
\* whether the k-th went through); err is assigned by each of them, so the
\* value read afterwards is that of the last.
Write(s) ==
    /\ ~crashed
    /\ pc[s] = "write"
    /\ \E e \in {~ok[4] : ok \in [1..4 -> BOOLEAN]} :
           err' = [err EXCEPT ![s] = e]
    /\ ch' = [ch EXCEPT ![s] = Tail(ch[s])]
    /\ pc' = [pc EXCEPT ![s] = "flush"]
    /\ UNCHANGED <<hub, ctxDone, unregCalls, gameVars, viewVars, crashed, sideVars>>

\* if err != nil { fmt.Println(err) }; Flush(); the loop goes back to select.
Flush(s) ==
    /\ ~crashed
    /\ pc[s] = "flush"
    /\ err' = [err EXCEPT ![s] = FALSE]
    /\ pc' = [pc EXCEPT ![s] = "select"]
    /\ UNCHANGED <<hub, ctxDone, ch, unregCalls, gameVars, viewVars, crashed, sideVars>>

\* The closure of GameRender.Register enters delete(r.gameChs, c).
GameUnregisterBegin(s) ==
    /\ ~crashed
    /\ pc[s] = "unregister" /\ hub[s] = "game"
    /\ pc' = [pc EXCEPT ![s] = "unregWriting"]
    /\ UNCHANGED <<hub, ctxDone, ch, err, unregCalls, gameVars, viewVars,
                   crashed, sideVars>>

\* A closure that returns and leaves the key in the map.
UnregisterWriteNoDelete(s) ==
    /\ ~crashed
    /\ pc[s] = "unregWriting"
    /\ gameChs' = gameChs
    /\ gtodo' = gtodo
    /\ pc' = [pc EXCEPT ![s] = "closed"]
    /\ UNCHANGED <<hub, ctxDone, ch, err, unregCalls, b, gpc, gbundle,
                   viewVars, crashed>>

\* The delete takes effect and the closure returns.  A key removed while the
\* hub ranges over the map is not produced, unless the range already read it.
UnregisterWrite(s) ==
    /\ ~crashed
    /\ pc[s] = "unregWriting"
    /\ gameChs' = MapDelete(gameChs, s)
    /\ \E seen \in BOOLEAN :
           gtodo' = IF seen THEN gtodo ELSE gtodo \ {s}
    /\ pc' = [pc EXCEPT ![s] = "closed"]
    /\ UNCHANGED <<hub, ctxDone, ch, err, unregCalls, b, gpc, gbundle,
                   viewVars, crashed>>

GameUnregisterEnd(s) == UnregisterWrite(s) /\ UNCHANGED sideVars

\* ------------------------------------------------- GameRender.Start loop
\* A check that goes on to compute whatever the map holds.
GameCheckAlways ==
    /\ ~crashed
    /\ gpc = "check"
    /\ gpc' = "evolve"
    /\ UNCHANGED <<sessVars, b, gameChs, gtodo, gbundle, viewVars, crashed, sideVars>>

\* if len(r.gameChs) == 0 { time.Sleep(100ms); continue }
GameCheck ==
    /\ ~crashed
    /\ gpc = "check"
    /\ gpc' = IF Cardinality(gameChs) = 0 THEN "idle" ELSE "evolve"
    /\ UNCHANGED <<sessVars, b, gameChs, gtodo, gbundle, viewVars, crashed, sideVars>>

\* The idle sleep ends and the loop continues at the check.
GameIdleWake ==
    /\ ~crashed
    /\ gpc = "idle"
    /\ gpc' = "check"
    /\ UNCHANGED <<sessVars, b, gameChs, gtodo, gbundle, viewVars, crashed, sideVars>>

\* b = Evolute(b); the bundle is built once; the range over the map starts.
Evolve ==
    /\ ~crashed
    /\ gpc = "evolve"
    /\ b' = Evolute(b)
    /\ gbundle' = GameBundle(b')
    /\ gtodo' = gameChs
    /\ gpc' = "range"
    /\ UNCHANGED <<sessVars, gameChs, viewVars, crashed>>

GameEvolve == Evolve /\ UNCHANGED sideVars

\* A send that waits until the receiver is parked on the channel.
GameSendBlocking(s) ==
    /\ ~crashed
    /\ gpc = "range" /\ s \in gtodo
    /\ Ready(s)
    /\ ch' = [ch EXCEPT ![s] = Append(ch[s], gbundle)]
    /\ pc' = [pc EXCEPT ![s] = "write"]
    /\ gtodo' = gtodo \ {s}
    /\ UNCHANGED <<hub, ctxDone, err, unregCalls, b, gameChs, gpc, gbundle,
                   viewVars, crashed, sideVars>>

\* A loop body that renders the board again for every channel.
GameSendRerender(s) ==
    /\ ~crashed
    /\ gpc = "range" /\ s \in gtodo
    /\ b' = Evolute(b)
    /\ gbundle' = GameBundle(b')
    /\ ch' = [ch EXCEPT ![s] = TrySend(ch[s], Ready(s), gbundle')]
    /\ pc' = [pc EXCEPT ![s] = IF Ready(s) THEN "write" ELSE pc[s]]
    /\ gtodo' = gtodo \ {s}
    /\ UNCHANGED <<hub, ctxDone, err, unregCalls, gameChs, gpc,
                   viewVars, crashed, sideVars>>

\* An iteration that leaves the key in the keys still to be produced.
SendGameAgain(s) ==
    /\ ~crashed
    /\ gpc = "range" /\ s \in gtodo
    /\ ch' = [ch EXCEPT ![s] = TrySend(ch[s], Ready(s), gbundle)]
    /\ pc' = [pc EXCEPT ![s] = IF Ready(s) THEN "write" ELSE pc[s]]
    /\ gtodo' = gtodo
    /\ UNCHANGED <<hub, ctxDone, err, unregCalls, b, gameChs, gpc, gbundle,
                   viewVars, crashed>>

\* One iteration of for ch := range r.gameChs: the non-blocking send to ch.
\* A receiver handed a frame leaves its select for the writes.
SendGame(s) ==
    /\ ~crashed
    /\ gpc = "range" /\ s \in gtodo
    /\ ch' = [ch EXCEPT ![s] = TrySend(ch[s], Ready(s), gbundle)]
    /\ pc' = [pc EXCEPT ![s] = IF Ready(s) THEN "write" ELSE pc[s]]
    /\ gtodo' = gtodo \ {s}
    /\ UNCHANGED <<hub, ctxDone, err, unregCalls, b, gameChs, gpc, gbundle,
                   viewVars, crashed>>

GameSend(s) == SendGame(s) /\ UNCHANGED sideVars

\* The range is exhausted: time.Sleep(time.Second), then the check again.
RangeEndGame ==
    /\ ~crashed
    /\ gpc = "range" /\ gtodo = {}
    /\ gpc' = "check"
    /\ UNCHANGED <<sessVars, b, gameChs, gtodo, gbundle, viewVars, crashed>>

GameRangeEnd == RangeEndGame /\ UNCHANGED sideVars

\* ---------------------------------------------- ViewersRender.Start loop
\* A publish whose bundle counts the map as it was before the case ran.
\* (ViewersPublish, below, is what follows every case of the select: the
\* bundle of len(viewers) is built and the range over viewers starts.)
ViewersPublishStale(m) ==
    /\ vbundle' = ViewersBundle(viewers)
    /\ vtodo' = m
    /\ vpc' = "range"

ViewersPublish(m) ==
    /\ vbundle' = ViewersBundle(m)
    /\ vtodo' = m
    /\ vpc' = "range"

\* ViewersRender.Register sends c on viewerJoin and the hub's select receives
\* it (one rendezvous on the unbuffered channel): viewers[c] = struct{}{}.
JoinRecv(s) ==
    /\ ~crashed
    /\ vpc = "select"
    /\ pc[s] = "register" /\ hub[s] = "viewers"
    /\ viewers' = MapInsert(viewers, s)
    /\ ViewersPublish(viewers')
    /\ pc' = [pc EXCEPT ![s] = "select"]
    /\ UNCHANGED <<hub, ctxDone, ch, err, unregCalls, gameVars, crashed>>

ViewerJoin(s) == JoinRecv(s) /\ UNCHANGED sideVars

\* The closure sends c on viewerLeave and the hub's select receives it:
\* delete(viewers, c).
LeaveRecv(s) ==
    /\ ~crashed
    /\ vpc = "select"
    /\ pc[s] = "unregister" /\ hub[s] = "viewers"
    /\ viewers' = MapDelete(viewers, s)
    /\ ViewersPublish(viewers')
    /\ pc' = [pc EXCEPT ![s] = "closed"]
    /\ UNCHANGED <<hub, ctxDone, ch, err, unregCalls, gameVars, crashed>>

ViewerLeave(s) == LeaveRecv(s) /\ UNCHANGED sideVars

\* case <-time.Tick(time.Second)
TickRecv ==
    /\ ~crashed
    /\ vpc = "select"
    /\ ViewersPublish(viewers)
    /\ UNCHANGED <<sessVars, gameVars, viewers, crashed>>

ViewerTick == TickRecv /\ UNCHANGED sideVars

\* One iteration of for ch := range viewers: the non-blocking send to ch.
SendViewers(s) ==
    /\ ~crashed
    /\ vpc = "range" /\ s \in vtodo
    /\ ch' = [ch EXCEPT ![s] = TrySend(ch[s], Ready(s), vbundle)]
    /\ pc' = [pc EXCEPT ![s] = IF Ready(s) THEN "write" ELSE pc[s]]
    /\ vtodo' = vtodo \ {s}
    /\ UNCHANGED <<hub, ctxDone, err, unregCalls, gameVars, viewers, vpc,
                   vbundle, crashed>>

ViewerSend(s) == SendViewers(s) /\ UNCHANGED sideVars

\* The range is exhausted: back to the select.
RangeEndViewers ==
    /\ ~crashed
    /\ vpc = "range" /\ vtodo = {}
    /\ vpc' = "select"
    /\ UNCHANGED <<sessVars, gameVars, viewers, vtodo, vbundle, crashed>>

ViewerRangeEnd == RangeEndViewers /\ UNCHANGED sideVars

\* ------------------------------------------------------------ the runtime
\* r.gameChs is written by the handlers and read by the hub with no lock.  An
\* access that meets a write in progress can be caught by the map's
\* concurrent-access check, which ends the process ("fatal error: concurrent
\* map writes" / "concurrent map iteration and map write"); it can also pass.
Fatal ==
    /\ ~crashed
    /\ Race
    /\ crashed' = TRUE
    /\ UNCHANGED <<sessVars, gameVars, viewVars, sideVars>>

\* ---------------------------------------------------------- specifications
\* The steps of a session that do not change a hub's map.
SessionStep(s) ==
    \/ \E h \in Hubs : Connect(s, h)
    \/ Cancel(s)
    \/ GameRegisterBegin(s)
    \/ SelectDone(s)
    \/ Write(s)
    \/ Flush(s)
    \/ GameUnregisterBegin(s)

\* The steps of the goroutine of GameRender.Start.
GameStep ==
    \/ GameCheck
    \/ GameIdleWake
    \/ GameEvolve
    \/ \E s \in Sessions : GameSend(s)
    \/ GameRangeEnd

\* The steps of the goroutine of ViewersRender.Start other than the receives
\* of its select.
ViewersStep ==
    \/ ViewerTick
    \/ \E s \in Sessions : ViewerSend(s)
    \/ ViewerRangeEnd

HubStep == GameStep \/ ViewersStep

\* Joins and leaves.
MemberStep(s) ==
    \/ GameRegisterEnd(s)
    \/ GameUnregisterEnd(s)
    \/ ViewerJoin(s)
    \/ ViewerLeave(s)

Next ==
    \/ \E s \in Sessions : SessionStep(s)
    \/ \E s \in Sessions : MemberStep(s)
    \/ HubStep
    \/ Fatal

\* The program: main's two hubs and the handlers the mux runs.
Spec == Init /\ [][Next]_vars

\* The scheduler runs every goroutine that can run; a sender parked on
\* viewerJoin or viewerLeave is served when the hub comes back to its select
\* (the runtime queues parked senders first-in first-out and select picks
\* among its ready cases at random).  Nothing forces a request to arrive, a
\* client to leave, a tick to fire or the runtime to catch a race.
Fairness ==
    /\ \A s \in Sessions :
          /\ WF_vars(GameRegisterBegin(s))
          /\ WF_vars(GameRegisterEnd(s))
          /\ WF_vars(SelectDone(s))
          /\ WF_vars(Write(s))
          /\ WF_vars(Flush(s))
          /\ WF_vars(GameUnregisterBegin(s))
          /\ WF_vars(GameUnregisterEnd(s))
          /\ SF_vars(ViewerJoin(s))
          /\ SF_vars(ViewerLeave(s))
    /\ WF_vars(GameStep)
    /\ WF_vars(ViewersStep)

FairSpec == Spec /\ Fairness

\* The closure is invoked again by its holder (streamHandleFunc invokes it
\* once; the Render interface hands it out to any caller).
UnregisterAgain(s) ==
    /\ ~crashed
    /\ pc[s] = "closed"
    /\ unregCalls[s] >= 1 /\ unregCalls[s] < MaxUnregCalls
    /\ pc' = [pc EXCEPT ![s] = "unregister"]
    /\ unregCalls' = [unregCalls EXCEPT ![s] = @ + 1]
    /\ UNCHANGED <<hub, ctxDone, ch, err, gameVars, viewVars, crashed, sideVars>>

NextApi ==
    \/ \E s \in Sessions : SessionStep(s)
    \/ \E s \in Sessions : MemberStep(s)
    \/ \E s \in Sessions : UnregisterAgain(s)
    \/ HubStep
    \/ Fatal

\* The two hubs used through the Render interface: sessions as in Spec, and
\* holders of the closures that may invoke them more than once.
SpecApi == Init /\ [][NextApi]_vars

\* Joins and leaves, with the history of each hub's last join kept.
HistGameRegisterEnd(s) ==
    /\ RegisterWrite(s)
    /\ JoinMark("game", s, gameChs)
    /\ UNCHANGED <<got, evoVars>>
HistGameUnregisterEnd(s) ==
    /\ UnregisterWrite(s)
    /\ LeaveMark("game", s)
    /\ UNCHANGED <<got, evoVars>>
HistViewerJoin(s) ==
    /\ JoinRecv(s)
    /\ JoinMark("viewers", s, viewers)
    /\ UNCHANGED <<got, evoVars>>
HistViewerLeave(s) ==
    /\ LeaveRecv(s)
    /\ LeaveMark("viewers", s)
    /\ UNCHANGED <<got, evoVars>>

HistMemberStep(s) ==
    \/ HistGameRegisterEnd(s)
    \/ HistGameUnregisterEnd(s)
    \/ HistViewerJoin(s)
    \/ HistViewerLeave(s)

NextHist ==
    \/ \E s \in Sessions : SessionStep(s)
    \/ \E s \in Sessions : HistMemberStep(s)
    \/ HubStep
    \/ Fatal

\* The program, with the history variable jl recorded.
SpecHist == Init /\ [][NextHist]_vars

\* ------------------------------------------------ the statement b = Evolute(b)
\* Evolute run loop by loop on the board b of GameRender.Start; ei and ej
\* are its i and j, newBoard its result under construction.
serverVars == <<sessVars, gameChs, gpc, gtodo, gbundle, viewVars, crashed,
                jl, got>>

\* newBoard := make(Board, len(board)): rows not yet made are empty.
EvoluteCall ==
    /\ epc = "call"
    /\ newBoard' = [i \in 1..Len(b) |-> <<>>]
    /\ ei' = 0
    /\ epc' = "outer"
    /\ UNCHANGED <<b, ej, serverVars>>

\* for i := 0; i < len(board); i++ { newBoard[i] = make([]bool, len(board[i]))
\* and, past the last row, return newBoard.
EvoluteOuter ==
    /\ epc = "outer"
    /\ IF ei < Len(b)
       THEN /\ newBoard' = [newBoard EXCEPT ![ei + 1] =
                                [j \in 1..Len(b[ei + 1]) |-> FALSE]]
            /\ ej' = 0
            /\ epc' = "inner"
       ELSE /\ epc' = "return"
            /\ UNCHANGED <<newBoard, ej>>
    /\ UNCHANGED <<b, ei, serverVars>>

\* A body of the inner loop that writes the cell into the board it reads.
EvoluteCellInPlace ==
    /\ epc = "inner"
    /\ IF ej < Len(b[ei + 1])
       THEN LET cnt == Neighbours(b, ei, ej)
            IN  /\ b' = [b EXCEPT ![ei + 1][ej + 1] =
                            IF cnt = 2 THEN Get(b, ei, ej)
                            ELSE IF cnt = 3 THEN TRUE
                            ELSE FALSE]
                /\ newBoard' = [newBoard EXCEPT ![ei + 1][ej + 1] = b'[ei + 1][ej + 1]]
                /\ ej' = ej + 1
                /\ UNCHANGED <<ei, epc>>
       ELSE /\ ei' = ei + 1
            /\ epc' = "outer"
            /\ UNCHANGED <<b, newBoard, ej>>
    /\ UNCHANGED serverVars

\* A body of the inner loop whose cnt == 3 branch keeps the cell as it is.
EvoluteCellKeepAt3 ==
    /\ epc = "inner"
    /\ IF ej < Len(b[ei + 1])
       THEN LET cnt == Neighbours(b, ei, ej)
            IN  /\ newBoard' = [newBoard EXCEPT ![ei + 1][ej + 1] =
                                   IF cnt = 2 THEN Get(b, ei, ej)
                                   ELSE IF cnt = 3 THEN Get(b, ei, ej)
                                   ELSE FALSE]
                /\ ej' = ej + 1
                /\ UNCHANGED <<ei, epc>>
       ELSE /\ ei' = ei + 1
            /\ epc' = "outer"
            /\ UNCHANGED <<newBoard, ej>>
    /\ UNCHANGED <<b, serverVars>>

\* for j := 0; j < len(board[i]); j++ { cnt over the eight directions; the
\* three branches on cnt }, and, past the last cell of the row, i++.
EvoluteCell ==
    /\ epc = "inner"
    /\ IF ej < Len(b[ei + 1])
       THEN LET cnt == Neighbours(b, ei, ej)
            IN  /\ newBoard' = [newBoard EXCEPT ![ei + 1][ej + 1] =
                                   IF cnt = 2 THEN Get(b, ei, ej)
                                   ELSE IF cnt = 3 THEN TRUE
                                   ELSE FALSE]
                /\ ej' = ej + 1
                /\ UNCHANGED <<ei, epc>>
       ELSE /\ ei' = ei + 1
            /\ epc' = "outer"
            /\ UNCHANGED <<newBoard, ej>>
    /\ UNCHANGED <<b, serverVars>>

\* b = Evolute(b): the result replaces the board, and the next tick calls
\* Evolute again.
EvoluteReturn ==
    /\ epc = "return"
    /\ b' = newBoard
    /\ newBoard' = <<>>
    /\ ei' = 0
    /\ ej' = 0
    /\ epc' = "call"
    /\ UNCHANGED serverVars

InitEvolute ==
    /\ InitServer
    /\ \E rnd \in AllRandStreams(EvoW, EvoH) : b = NewBoard(EvoW, EvoH, rnd)
    /\ newBoard = <<>>
    /\ epc = "call"
    /\ ei = 0
    /\ ej = 0

NextEvolute ==
    \/ EvoluteCall
    \/ EvoluteOuter
    \/ EvoluteCell
    \/ EvoluteReturn

\* The ticks of the engine on every board NewBoard can make, Evolute run
\* statement by statement.
SpecEvolute == InitEvolute /\ [][NextEvolute]_vars

\* History of the bundles: hub h has built a new one, which none of its
\* sessions has been handed; the same when it has sent one round and will
\* build the next before it sends again.
NewBundle(h) ==
    /\ got' = {s \in got : hub[s] # h}
    /\ UNCHANGED <<jl, evoVars>>

\* ... and session s, if it was parked on its channel, is handed the bundle.
MarkReceived(s) ==
    /\ got' = IF Ready(s) THEN got \cup {s} ELSE got
    /\ UNCHANGED <<jl, evoVars>>

SeqGameEvolve == Evolve /\ NewBundle("game")
SeqGameSend(s) == SendGame(s) /\ MarkReceived(s)
SeqViewerJoin(s) == JoinRecv(s) /\ NewBundle("viewers")
SeqViewerLeave(s) == LeaveRecv(s) /\ NewBundle("viewers")
SeqViewerTick == TickRecv /\ NewBundle("viewers")
SeqViewerSend(s) == SendViewers(s) /\ MarkReceived(s)
SeqGameRangeEnd == RangeEndGame /\ NewBundle("game")
SeqViewerRangeEnd == RangeEndViewers /\ NewBundle("viewers")

SeqHubStep ==
    \/ GameCheck
    \/ GameIdleWake
    \/ SeqGameEvolve
    \/ \E s \in Sessions : SeqGameSend(s)
    \/ SeqGameRangeEnd
    \/ SeqViewerTick
    \/ \E s \in Sessions : SeqViewerSend(s)
    \/ SeqViewerRangeEnd

SeqMemberStep(s) ==
    \/ GameRegisterEnd(s)
    \/ GameUnregisterEnd(s)
    \/ SeqViewerJoin(s)
    \/ SeqViewerLeave(s)

NextSeq ==
    \/ \E s \in Sessions : SessionStep(s)
    \/ \E s \in Sessions : SeqMemberStep(s)
    \/ SeqHubStep
    \/ Fatal

\* The program, with the sessions that were handed a hub's current bundle
\* recorded.
SpecSeq == Init /\ [][NextSeq]_vars

\* ------------------------------------------------------------------ claims
Members(h) == IF h = "game" THEN gameChs ELSE viewers

\* Sessions of route h between the return of Register and the return of the
\* closure.
Streaming(h) ==
    {s \in Sessions : hub[s] = h /\ pc[s] \in {"select", "write", "flush"}}

Closing == {"unregister", "unregWriting", "closed"}

\* C1: a running hub in its publish loop is never held up by a sink: the send
\* to every channel still to be visited can be taken whatever its session is
\* doing, and with none left the loop ends.
PublishNeverWaits ==
    ~crashed =>
        /\ gpc = "range" =>
              /\ \A s \in gtodo : ENABLED GameSend(s)
              /\ gtodo = {} => ENABLED GameRangeEnd
        /\ vpc = "range" =>
              /\ \A s \in vtodo : ENABLED ViewerSend(s)
              /\ vtodo = {} => ENABLED ViewerRangeEnd

\* C1 witness: a game cycle has ended in which one registered session, still
\* busy with an older frame, was passed over and another got the new frame.
PublishPassedBusySink ==
    /\ ~crashed
    /\ gpc = "check"
    /\ \E s, t \in gameChs :
          /\ s # t
          /\ pc[s] = "write" /\ ch[s] # <<gbundle>>
          /\ ch[t] = <<gbundle>>

\* C2: every call of Register and of the closure it returns comes back.
CallsReturn ==
    \A s \in Sessions :
        /\ (pc[s] \in {"register", "regWriting"})
               ~> (pc[s] \notin {"idle", "register", "regWriting"})
        /\ (pc[s] \in {"unregister", "unregWriting"}) ~> (pc[s] = "closed")

\* C2, as far as it goes: a call that does not come back is one the fatal
\* error of the runtime cut short; no call waits for ever in a running process.
CallsReturnUnlessFatal ==
    \A s \in Sessions :
        /\ (pc[s] \in {"register", "regWriting"})
               ~> (crashed \/ pc[s] \notin {"idle", "register", "regWriting"})
        /\ (pc[s] \in {"unregister", "unregWriting"})
               ~> (crashed \/ pc[s] = "closed")

\* C3: no task writes a hub's map while another reads, iterates or writes it.
\* (The map viewers is local to the goroutine of ViewersRender.Start; the map
\* r.gameChs is the one several tasks reach.)
MembershipExclusive == ~Race

\* C4: a session whose handler has returned invoked its closure exactly once;
\* no session invokes it twice, and none before its handler returns.
DeregisteredOnce ==
    \A s \in Sessions :
        /\ unregCalls[s] <= 1
        /\ pc[s] = "closed" => unregCalls[s] = 1
        /\ unregCalls[s] = 1 => pc[s] \in Closing

\* C4 witness: a session of each route has closed.
BothRoutesClosed ==
    \E s, t \in Sessions :
        /\ hub[s] = "game" /\ pc[s] = "closed"
        /\ hub[t] = "viewers" /\ pc[t] = "closed"

\* C5: a session whose writes of a frame ended in an error goes on to close.
WriteErrorCloses ==
    [][\A s \in Sessions :
          (pc[s] = "flush" /\ err[s] /\ pc'[s] # "flush") => pc'[s] \in Closing]_vars

JoinThenLeaveRestores ==
    \A h \in Hubs : jl[h].stage = "left" => Members(h) = jl[h].prior

\* C8 witness: a join and the leave right after it, over a map that was not
\* empty.
JoinedThenLeft ==
    \E h \in Hubs : jl[h].stage = "left" /\ jl[h].prior # {}

\* C9: a channel never holds more than one frame that was sent and is not yet
\* written out.
NoFrameQueue == \A s \in Sessions : Len(ch[s]) <= 1

\* C9 witness: the counter hub is publishing a frame and has passed over a
\* member that still holds an older, different one.
SlowSinkSkipped ==
    /\ vpc = "range"
    /\ \E s \in viewers \ vtodo : Len(ch[s]) = 1 /\ ch[s] # <<vbundle>>

\* C10: within one cycle a hub keeps one bundle, and every send that finds
\* its session parked hands over exactly that bundle.
SameFramePerCycle ==
    [][/\ (gpc = "range" /\ gpc' = "range") => gbundle' = gbundle
       /\ (vpc = "range" /\ vpc' = "range") => vbundle' = vbundle
       /\ \A s \in Sessions :
             /\ (gpc = "range" /\ Ready(s) /\ s \in gtodo /\ s \notin gtodo')
                    => ch'[s] = <<gbundle>>
             /\ (vpc = "range" /\ Ready(s) /\ s \in vtodo /\ s \notin vtodo')
                    => ch'[s] = <<vbundle>>]_vars

\* C10 witness: two sessions of the game stream hold the frame of the cycle,
\* a frame with live cells.
TwoSessionsSameFrame ==
    /\ gbundle.Data.body # <<>>
    /\ \E s, t \in gameChs :
          s # t /\ ch[s] = <<gbundle>> /\ ch[t] = <<gbundle>>

\* The bundle hub h is sending round.
Bundle(h) == IF h = "game" THEN gbundle ELSE vbundle

\* C11: the frames a session receives are frames its hub published, in the
\* order published, none twice: a session is handed only the bundle its hub
\* built last, and only if it was not handed that bundle before; a hub's
\* bundle is replaced only by a newly built one, which no session has yet.
FramesInOrder ==
    [][/\ \A s \in Sessions :
             (pc[s] = "select" /\ pc'[s] = "write") =>
                 /\ s \notin got
                 /\ s \in got'
                 /\ ch'[s] = <<Bundle(hub[s])>>
                 /\ Bundle(hub[s])' = Bundle(hub[s])
       /\ \A h \in Hubs :
             Bundle(h)' # Bundle(h) => {s \in got' : hub[s] = h} = {}]_vars

\* C11 witness: in one round of the game hub a session was handed the bundle
\* and another member, still writing out an older frame, was passed over.
ReceivedAndMissed ==
    /\ gpc = "range"
    /\ \E s, t \in gameChs :
          /\ s \in got /\ ch[s] = <<gbundle>>
          /\ t \notin got /\ t \notin gtodo
          /\ Len(ch[t]) = 1 /\ ch[t] # <<gbundle>>

\* C12: while r.gameChs is empty the engine only goes round its idle branch:
\* a step taken at the check or in the idle sleep with the map empty before
\* and after it calls no Evolute (the loop does not reach the compute or the
\* range), leaves the board and the bundle as they are and hands no frame to
\* a session of the game stream.
IdleComputesNothing ==
    [][(gameChs = {} /\ gameChs' = {} /\ gpc \in {"check", "idle"}) =>
           /\ gpc' \in {"check", "idle"}
           /\ b' = b
           /\ gbundle' = gbundle
           /\ \A s \in Sessions : hub[s] = "game" => ch'[s] = ch[s]]_vars

\* C12 witness: the engine sleeps in its idle branch, has built no bundle yet,
\* and the counter hub is meanwhile serving a session.
IdleWhileCounterServes ==
    /\ gpc = "idle" /\ gameChs = {}
    /\ gbundle = NoBundle
    /\ \E s \in viewers : ch[s] = <<ViewersBundle(viewers)>>

\* C17: the counter hub publishes after every join and every leave it takes
\* and after every tick: a step that leaves its select starts a range over
\* the map as the step left it, with a bundle that carries the size of that
\* map; the bundle and the map then stay as they are until the range ends.
CounterFrameAfterEveryEvent ==
    /\ [](vpc = "range" => vbundle = ViewersBundle(viewers))
    /\ [][/\ \A s \in Sessions :
                /\ (hub[s] = "viewers" /\ pc[s] = "register" /\ pc'[s] # "register")
                       => (s \in viewers' /\ vpc' = "range" /\ vtodo' = viewers')
                /\ (hub[s] = "viewers" /\ pc[s] = "unregister" /\ pc'[s] # "unregister")
                       => (s \notin viewers' /\ vpc' = "range" /\ vtodo' = viewers')
          /\ (vpc = "select" /\ vpc' # "select")
                 => (vtodo' = viewers' /\ vbundle' = ViewersBundle(viewers'))
          /\ (vpc = "range") => (viewers' = viewers /\ vbundle' = vbundle)]_vars

\* C17 witness: a leave has been taken, and the bundle being sent to the
\* session that remains carries the count 1.
CounterFrameAfterLeave ==
    /\ vpc = "range"
    /\ vbundle.Data = numberSvg(1)
    /\ \E s, t \in Sessions :
          /\ hub[s] = "viewers" /\ pc[s] = "closed"
          /\ t \in viewers /\ t \in vtodo /\ Ready(t)

\* C18: whenever the engine computes a successor board and starts publishing
\* it, at least one channel is in r.gameChs.
NeverRendersToNobody ==
    [][(gpc = "evolve" /\ gpc' = "range") => gameChs # {}]_vars

FailureContained ==
    \A s, t \in Sessions :
        (s # t /\ pc[s] \in Closing /\ Ready(t))
            ~> (pc[t] = "write" \/ ctxDone[t])

\* C15, as far as it goes: the other session is starved only when the
\* runtime's fatal error has ended the process.
FailureContainedUnlessFatal ==
    \A s, t \in Sessions :
        (s # t /\ pc[s] \in Closing /\ Ready(t))
            ~> (crashed \/ pc[t] = "write" \/ ctxDone[t])

\* C16: a session whose request context is done reaches Closed, and its
\* channel is then in neither map.
CancelledCloses ==
    \A s \in Sessions :
        ctxDone[s] ~> (pc[s] = "closed" /\ s \notin gameChs /\ s \notin viewers)

\* C16, as far as it goes: a cancelled session misses Closed only when the
\* runtime's fatal error has ended the process.
CancelledClosesUnlessFatal ==
    \A s \in Sessions :
        ctxDone[s] ~> (crashed \/ (pc[s] = "closed" /\ s \notin gameChs
                                                   /\ s \notin viewers))

\* The live cells of the board among the up to eight cells next to cell
\* (i, j), rows and cells counted from 1.
LiveAround(board, i, j) ==
    {c \in (1..Len(board)) \X (1..Len(board[i])) :
        /\ c # <<i, j>>
        /\ c[1] - i \in -1..1
        /\ c[2] - j \in -1..1
        /\ board[c[1]][c[2]]}

\* The rule of the game for cell (i, j) of the board.
RuleOfLife(board, i, j) ==
    LET n == Cardinality(LiveAround(board, i, j))
    IN  IF board[i][j] THEN n \in {2, 3} ELSE n = 3

Cells(board) == {c \in (1..Len(board)) \X (1..EvoH) : c[2] <= Len(board[c[1]])}

\* C13: what Evolute returns is the board of the rule: a live cell with 2 or
\* 3 live neighbours is live, any other live cell is dead, a dead cell is
\* live exactly with 3 live neighbours; the cell written last obeys it too.
EvoluteIsRuleOfLife ==
    /\ (epc = "inner" /\ ej >= 1) =>
          newBoard[ei + 1][ej] = RuleOfLife(b, ei + 1, ej)
    /\ epc = "return" =>
          /\ newBoard = [i \in 1..Len(b) |->
                            [j \in 1..Len(b[i]) |-> RuleOfLife(b, i, j)]]
          /\ newBoard = Evolute(b)

\* C13 witness: Evolute has run on a board that has a live cell with 2 live
\* neighbours, one with 3, one with another number, a dead cell with 3 and a
\* dead cell with 2.
AllRuleCasesEvolved ==
    /\ epc = "return"
    /\ \E c \in Cells(b) :
          b[c[1]][c[2]] /\ Cardinality(LiveAround(b, c[1], c[2])) = 2
          /\ newBoard[c[1]][c[2]]
    /\ \E c \in Cells(b) :
          b[c[1]][c[2]] /\ Cardinality(LiveAround(b, c[1], c[2])) = 3
          /\ newBoard[c[1]][c[2]]
    /\ \E c \in Cells(b) :
          b[c[1]][c[2]] /\ Cardinality(LiveAround(b, c[1], c[2])) \notin {2, 3}
          /\ ~newBoard[c[1]][c[2]]
    /\ \E c \in Cells(b) :
          ~b[c[1]][c[2]] /\ Cardinality(LiveAround(b, c[1], c[2])) = 3
          /\ newBoard[c[1]][c[2]]
    /\ \E c \in Cells(b) :
          ~b[c[1]][c[2]] /\ Cardinality(LiveAround(b, c[1], c[2])) = 2
          /\ ~newBoard[c[1]][c[2]]

\* C14: for the cell Evolute is at, every position its eight directions
\* reach outside the board reads as dead, and its cnt is the number of live
\* cells next to it inside the board (no cell of the opposite edge is
\* counted).
OutsideIsDead ==
    (epc = "inner" /\ ej < Len(b[ei + 1])) =>
        /\ \A d \in 1..8 :
              LET i == ei + directions[d][1]
                  j == ej + directions[d][2]
              IN  (i < 0 \/ i >= EvoW \/ j < 0 \/ j >= EvoH) => ~Get(b, i, j)
        /\ Neighbours(b, ei, ej) = Cardinality(LiveAround(b, ei + 1, ej + 1))

\* C14 witness: Evolute has run on a board whose first cell of every row is
\* live and no other; the last cell of every row is dead in the result.
OppositeEdgeUnseen ==
    /\ epc = "return"
    /\ \A c \in Cells(b) : b[c[1]][c[2]] <=> c[2] = 1
    /\ \A i \in 1..Len(newBoard) : ~newBoard[i][EvoH]

\* C19: the board keeps the dimensions NewBoard gave it over all ticks; what
\* Evolute returns has as many rows as its input and rows of the same
\* lengths; Evolute writes only its own new board and not its input.
DimensionsKept ==
    /\ [](/\ Len(b) = EvoW
          /\ \A i \in 1..Len(b) : Len(b[i]) = EvoH
          /\ epc = "return" =>
                /\ Len(newBoard) = Len(b)
                /\ \A i \in 1..Len(b) : Len(newBoard[i]) = Len(b[i]))
    /\ [][epc # "return" => b' = b]_vars

\* C19 witness: Evolute has returned a board that differs from its input, on
\* an input that is itself what Evolute returns for another board.
SecondTickReturned ==
    /\ epc = "return"
    /\ newBoard # b
    /\ \E rnd \in AllRandStreams(EvoW, EvoH) :
          LET b0 == NewBoard(EvoW, EvoH, rnd)
          IN  b0 # b /\ Evolute(b0) = b

====
